---- MODULE Spec2Model ----
(***************************************************************************)
(* Model of pmail: MailClient.send_email (src/src/mail_client.py) as a     *)
(* step-by-step state machine over one constructed client, with the mail   *)
(* server and the file system as a nondeterministic environment.           *)
(*                                                                         *)
(* Python strings are sequences of one-character strings; a Python value   *)
(* that may be None, a str or a list is a record [t, s, l].                *)
(***************************************************************************)
EXTENDS Integers, Sequences, FiniteSets, TLC

\* ------------------------------------------------------------------ bounds
MaxRcpt == 2
MaxAtt == 2

\* ------------------------------------------------------- Python values
PyNone == [t |-> "none", s |-> <<>>, l |-> <<>>]
PyStr(x) == [t |-> "str", s |-> x, l |-> <<>>]
PyList(x) == [t |-> "list", s |-> <<>>, l |-> x]

\* bool(v): None, "" and [] are falsy
Truthy(v) == \/ v.t = "str" /\ v.s # <<>>
             \/ v.t = "list" /\ v.l # <<>>

\* iterating a str yields its characters, iterating a list its elements
Iter(v) == IF v.t = "str" THEN [i \in 1..Len(v.s) |-> <<v.s[i]>>] ELSE v.l

Range(q) == {q[i] : i \in DOMAIN q}

SeqsUpTo(S, n) == UNION {[1..k -> S] : k \in 0..n}

\* sep.join(items), items a sequence of strings
RECURSIVE Join(_, _)
Join(sep, items) ==
    IF items = <<>> THEN <<>>
    ELSE IF Len(items) = 1 THEN items[1]
    ELSE items[1] \o sep \o Join(sep, Tail(items))

CommaSpace == <<",", " ">>

\* ------------------------------------------------ re.sub(r'<[^>]+>', '', s)
\* index of the '>' closing a tag that starts at s[1], or 0 when no tag
\* starts there: '<', one or more characters other than '>', then '>'
TagEnd(s) ==
    IF /\ Len(s) >= 3
       /\ s[1] = "<"
       /\ s[2] # ">"
       /\ \E j \in 3..Len(s) : s[j] = ">"
    THEN CHOOSE j \in 3..Len(s) : s[j] = ">" /\ \A k \in 3..(j-1) : s[k] # ">"
    ELSE 0

RECURSIVE SubTags(_)
SubTags(s) ==
    IF s = <<>> THEN <<>>
    ELSE IF TagEnd(s) > 0 THEN SubTags(SubSeq(s, TagEnd(s) + 1, Len(s)))
    ELSE <<Head(s)>> \o SubTags(Tail(s))

Whitespace == {" ", "\n", "\t"}

RECURSIVE LStrip(_)
LStrip(s) == IF s # <<>> /\ Head(s) \in Whitespace THEN LStrip(Tail(s)) ELSE s

RECURSIVE RStrip(_)
RStrip(s) ==
    IF s # <<>> /\ s[Len(s)] \in Whitespace THEN RStrip(SubSeq(s, 1, Len(s) - 1)) ELSE s

Strip(s) == RStrip(LStrip(s))

Placeholder == <<"H", "T", "M", "L", " ", "o", "n", "l", "y">>

\* lines 90-97: the plain body used for composition
FallbackBodyNoPlaceholder(body, body_html) ==
    IF ~Truthy(body) /\ Truthy(body_html)
    THEN PyStr(Strip(SubTags(body_html.s)))
    ELSE body
FallbackBody(body, body_html) ==
    IF ~Truthy(body) /\ Truthy(body_html)
    THEN LET stripped == Strip(SubTags(body_html.s))
         IN  PyStr(IF stripped = <<>> THEN Placeholder ELSE stripped)
    ELSE body

\* lines 99-104: recipient normalisation
NormalizeToKeepsStr(to) == to
NormalizeTo(to) == IF to.t = "str" THEN PyList(<<to.s>>) ELSE to
NormalizeCc(cc) == IF Truthy(cc) /\ cc.t = "str" THEN PyList(<<cc.s>>) ELSE cc


\* ------------------------------------------------------------ file system
P_txt == <<"d", "/", "r", ".", "t", "x", "t">>
P_gz == <<"s", ".", "g", "z">>
P_dir == <<"d">>
P_gone == <<"g", "o", "n", "e">>

Paths == {P_txt, P_gz, P_dir, P_gone}

\* Path.exists() / Path.is_file() as the file system answers them
PathExists(p) == p \in {P_txt, P_gz, P_dir}
PathIsFile(p) == p \in {P_txt, P_gz}

FileBytes(p) == IF p = P_txt THEN <<"t">> ELSE <<"z">>

\* Path.name: the component after the last '/'
RECURSIVE PathName(_)
PathName(p) ==
    IF \E i \in DOMAIN p : p[i] = "/"
    THEN PathName(Tail(p))
    ELSE p

EndsWith(s, suffix) ==
    /\ Len(s) >= Len(suffix)
    /\ SubSeq(s, Len(s) - Len(suffix) + 1, Len(s)) = suffix

\* mimetypes.guess_type(path) -> <<ctype, encoding>>, "" standing for None
GuessType(p) ==
    IF EndsWith(p, <<".", "t", "x", "t">>) THEN <<"text/plain", "">>
    ELSE IF EndsWith(p, <<".", "g", "z">>) THEN <<"", "gzip">>
    ELSE <<"", "">>

\* lines 157-159
ContentType(p) ==
    LET g == GuessType(p)
    IN  IF g[1] = "" \/ g[2] # "" THEN "application/octet-stream" ELSE g[1]

\* ------------------------------------------------------------- MIME parts
MIMEText(text, subtype) ==
    [kind |-> "text", subtype |-> subtype, payload |-> text, parts |-> <<>>,
     filename |-> <<>>, cte |-> ""]

MIMEMultipart(subtype, children) ==
    [kind |-> "multipart", subtype |-> subtype, payload |-> <<>>, parts |-> children,
     filename |-> <<>>, cte |-> ""]

\* lines 164-175: MIMEBase + set_payload + encode_base64 + Content-Disposition
AttachmentPart(p) ==
    [kind |-> "base", subtype |-> ContentType(p), payload |-> FileBytes(p), parts |-> <<>>,
     filename |-> PathName(p), cte |-> "base64"]

\* lines 141-148 / 188-190: the body part when HTML is present
AlternativePartHtmlFirst(body, body_html) ==
    MIMEMultipart("alternative", <<MIMEText(body_html.s, "html"), MIMEText(body.s, "plain")>>)
AlternativePart(body, body_html) ==
    MIMEMultipart("alternative", <<MIMEText(body.s, "plain"), MIMEText(body_html.s, "html")>>)

\* lines 141-148
BodyPart(body, body_html) ==
    IF Truthy(body_html) THEN AlternativePart(body, body_html)
    ELSE MIMEText(body.s, "plain")

\* lines 136-196: the MIME tree, the first n attachments attached
ComposeRootBodyLast(body, body_html, attachment_paths, n) ==
    IF attachment_paths # <<>>
    THEN MIMEMultipart("mixed",
             [i \in 1..n |-> AttachmentPart(attachment_paths[i])] \o
             <<BodyPart(body, body_html)>>)
    ELSE IF Truthy(body_html) THEN AlternativePart(body, body_html)
    ELSE MIMEText(body.s, "plain")
ComposeRoot(body, body_html, attachment_paths, n) ==
    IF attachment_paths # <<>>
    THEN MIMEMultipart("mixed",
             <<BodyPart(body, body_html)>> \o
             [i \in 1..n |-> AttachmentPart(attachment_paths[i])])
    ELSE IF Truthy(body_html) THEN AlternativePart(body, body_html)
    ELSE MIMEText(body.s, "plain")


\* ------------------------------------------------------------ exceptions
SMTPExceptions ==
    {"SMTPException", "SMTPServerDisconnected", "SMTPResponseException",
     "SMTPSenderRefused", "SMTPRecipientsRefused", "SMTPDataError",
     "SMTPConnectError", "SMTPAuthenticationError"}

\* subclasses of Exception raised anywhere in send_email
Exceptions == SMTPExceptions \cup {"ValueError", "TypeError", "AttributeError", "OSError", "SSLError"}

\* lines 231-236: `except smtplib.SMTPException` then `except Exception`
CatchesSMTPOnly(e) == e \in SMTPExceptions
Catches(e) == e \in SMTPExceptions \/ e \in Exceptions

\* ---------------------------------------------------------------- inputs
A1 == <<"a", "@", "x">>
A2 == <<"b", "@", "y">>
A3 == <<"c", "@", "z">>
A4 == <<"d", "@", "w">>
Account == <<"m", "e", "@", "g">>
Sender == <<"s", "@", "g">>
SubjectText == <<"H", "i">>
PlainText == <<"h", "e", "l", "l", "o">>
HtmlText == <<"<", "p", ">", "H", "i", "<", "/", "p", ">">>
HtmlTagOnly == <<"<", "b", "r", ">", " ">>

ToInputs == {PyNone, PyStr(A1)} \cup {PyList(q) : q \in SeqsUpTo({A1, A2}, MaxRcpt)}
CcInputs == {PyNone, PyStr(A3), PyList(<<A3, A1>>)}
BccInputs == {PyNone, PyStr(A4)}
BodyInputs == {PyNone, PyStr(<<>>), PyStr(PlainText)}
HtmlInputs == {PyNone, PyStr(HtmlText), PyStr(HtmlTagOnly)}
FromInputs == {PyNone, PyStr(Sender)}
AttachmentInputs == {PyNone, PyStr(P_txt)} \cup {PyList(q) : q \in SeqsUpTo(Paths, MaxAtt)}

Requests ==
    [to : ToInputs, subject : {SubjectText}, body : BodyInputs, body_html : HtmlInputs,
     from_address : FromInputs, cc : CcInputs, bcc : BccInputs,
     attachments : AttachmentInputs]

\* ----------------------------------------------------------------- state
VARIABLES
    config,            \* EmailConfig of the constructed client
    pc,                \* position inside send_email; "returned" once it is over, "idle" between calls
    req,               \* the arguments of the current call, as passed
    body, to, cc, bcc, \* the parameters send_email rebinds
    attachment_paths,  \* validated attachment paths
    msg,               \* <<>> or <<composed message>>
    recipients,        \* the to_addrs handed to send_message
    server,            \* the smtplib.SMTP object of this call: none/open/closed
    sockets,           \* number of open connections of the process
    exc,               \* exception in flight, "none" when there is none
    result,            \* outcome of the last call: none/true/false/raised
    events,            \* transport steps attempted in the current call
    delivered,         \* addresses the server accepted the message for
    refused,           \* addresses the server refused in this call
    client,            \* the MailClient object: none/ready/failed
    cli,               \* the command-line program: position, arguments, exit code
    now,               \* the clock, in slots of a day
    jobs,              \* the job registries of the schedule module
    lpc,               \* position of the scheduling thread
    poll,              \* the poll in progress: registry, mode, due jobs left, start
    running,           \* ids of the jobs being executed
    interrupted,       \* a KeyboardInterrupt has been delivered
    api,               \* outcome of the scheduler call that just ended
    ghost              \* history: ids registered and not cleared, next id

sendvars == <<config, pc, req, body, to, cc, bcc, attachment_paths, msg, recipients,
              server, sockets, exc, result, events, delivered, refused>>
schedvars == <<now, jobs, lpc, poll, running, interrupted, api, ghost>>
outer == <<client, cli, schedvars>>

vars == <<sendvars, outer>>

NoRequest ==
    [to |-> PyNone, subject |-> SubjectText, body |-> PyNone, body_html |-> PyNone,
     from_address |-> PyNone, cc |-> PyNone, bcc |-> PyNone, attachments |-> PyNone]

\* EmailScheduler objects of the process
Instances == {1, 2}

\* the schedule module keeps one registry (key 0) for the whole process
RegistryKeys == {0} \cup Instances

NoPoll == [key |-> 0, continuous |-> FALSE, runnable |-> <<>>, start |-> -1]
NoApi == [op |-> "none", inst |-> 0, outcome |-> "none", view |-> <<>>]
NoCli == [pc |-> "none", code |-> -1]

\* no scheduler call made yet: empty registry, the caller in control
SchedIdle ==
    /\ now = 0
    /\ jobs = [k \in RegistryKeys |-> <<>>]
    /\ lpc = "caller"
    /\ poll = NoPoll
    /\ running = {}
    /\ interrupted = FALSE
    /\ api = NoApi
    /\ ghost = [live |-> <<>>, next_id |-> 1]

\* src/config/email_config.py 17-31 with a configured, valid account
Init ==
    /\ config \in [smtp_server : {"smtp.gmail.com"}, smtp_port : {587},
                   gmail_address : {Account}, gmail_password : {<<"p">>},
                   default_sender : {Account}, use_tls : BOOLEAN]
    /\ client = "ready"
    /\ cli = NoCli
    /\ SchedIdle
    /\ pc = "idle"
    /\ req = NoRequest
    /\ body = PyNone /\ to = PyNone /\ cc = PyNone /\ bcc = PyNone
    /\ attachment_paths = <<>>
    /\ msg = <<>>
    /\ recipients = <<>>
    /\ server = "none"
    /\ sockets = 0
    /\ exc = "none"
    /\ result = "none"
    /\ events = <<>>
    /\ delivered = {}
    /\ refused = {}

locals == <<body, to, cc, bcc, attachment_paths, msg, recipients>>
transport == <<server, sockets, events, delivered, refused>>

\* send_email(args) is entered: the frame starts from the arguments
StartCall(args) ==
    /\ pc = "idle"
    /\ req' = args
    /\ body' = args.body /\ to' = args.to /\ cc' = args.cc /\ bcc' = args.bcc
    /\ pc' = "validate"
    /\ UNCHANGED <<config, attachment_paths, msg, recipients, exc, result, transport>>

\* a caller invokes send_email(args)
Call ==
    /\ pc = "idle"
    /\ \E args \in Requests : StartCall(args)
    /\ UNCHANGED outer

\* the call is over: the caller has taken the outcome and the frame of
\* send_email (arguments, locals, the SMTP object) is gone; only the
\* client's configuration and the process's open sockets outlive it
Discard ==
    /\ pc = "returned"
    /\ pc' = "idle"
    /\ req' = NoRequest
    /\ body' = PyNone /\ to' = PyNone /\ cc' = PyNone /\ bcc' = PyNone
    /\ attachment_paths' = <<>>
    /\ msg' = <<>>
    /\ recipients' = <<>>
    /\ server' = "none"
    /\ exc' = "none"
    /\ result' = "none"
    /\ events' = <<>>
    /\ delivered' = {}
    /\ refused' = {}
    /\ UNCHANGED <<config, sockets>>
    /\ UNCHANGED outer

\* raise e inside the outer try, outside the with block
RaiseOrReconnect(e) ==
    IF pc = "connect"
    THEN /\ exc' = exc
         /\ pc' = "connect"
    ELSE /\ exc' = e
         /\ pc' = "except"
Raise(e) ==
    /\ exc' = e
    /\ pc' = "except"

\* `return False` from inside the try block
ReturnFalse ==
    /\ result' = "false"
    /\ pc' = "returned"

\* line 85: `not body and not body_html`
MissingBodyNoneOnly(body_, body_html) == body_.t = "none" /\ body_html.t = "none"
MissingBody(body_, body_html) == ~Truthy(body_) /\ ~Truthy(body_html)

\* lines 85-104
Validate ==
    /\ pc = "validate"
    /\ IF MissingBody(body, req.body_html)
       THEN /\ Raise("ValueError")
            /\ UNCHANGED <<body, to, cc, bcc, result>>
       ELSE /\ body' = FallbackBody(body, req.body_html)
            /\ to' = NormalizeTo(to)
            /\ cc' = NormalizeCc(cc)
            /\ bcc' = NormalizeCc(bcc)
            /\ pc' = "attachments"
            /\ UNCHANGED <<exc, result>>
    /\ UNCHANGED <<config, req, attachment_paths, msg, recipients, transport>>
    /\ UNCHANGED outer

\* lines 108-109
NormalizeAttachments(attachments) ==
    IF attachments.t = "str" THEN <<attachments.s>> ELSE attachments.l

\* lines 112-120: every path exists and is a regular file
AllValid(paths) == \A i \in DOMAIN paths : PathExists(paths[i]) /\ PathIsFile(paths[i])

\* lines 107-122
ResolveAttachments ==
    /\ pc = "attachments"
    /\ IF Truthy(req.attachments)
       THEN LET paths == NormalizeAttachments(req.attachments)
            IN  IF AllValid(paths)
                THEN /\ attachment_paths' = paths
                     /\ pc' = "compose"
                     /\ UNCHANGED result
                ELSE /\ ReturnFalse
                     /\ UNCHANGED attachment_paths
       ELSE /\ attachment_paths' = <<>>
            /\ pc' = "compose"
            /\ UNCHANGED result
    /\ UNCHANGED <<config, req, body, to, cc, bcc, msg, recipients, exc, transport>>
    /\ UNCHANGED outer

NoHeaders == [h \in {} |-> <<>>]

\* lines 180-182: the except clause of the attachment loop returns False
AttachErrorSkips == "headers"
AttachErrorTarget == "returned"

\* lines 136-196. Attachments are read in order; open() raises for a path
\* that is not a readable regular file, and may raise for any file
\* (permissions, I/O error, file removed since validation): failAt is the
\* first attachment whose read raises, 0 when every read succeeds.
Compose ==
    /\ pc = "compose"
    /\ \E failAt \in 0..Len(attachment_paths) :
        /\ \A i \in 1..Len(attachment_paths) :
              (failAt = 0 \/ i < failAt) => PathIsFile(attachment_paths[i])
        /\ IF failAt = 0
           THEN /\ msg' = <<[root |-> ComposeRoot(body, req.body_html, attachment_paths,
                                                  Len(attachment_paths)),
                             headers |-> NoHeaders]>>
                /\ pc' = "headers"
                /\ UNCHANGED result
           ELSE /\ msg' = <<[root |-> ComposeRoot(body, req.body_html, attachment_paths,
                                                  failAt - 1),
                             headers |-> NoHeaders]>>
                /\ pc' = AttachErrorTarget
                /\ result' = IF AttachErrorTarget = "returned" THEN "false" ELSE result
    /\ UNCHANGED <<config, req, body, to, cc, bcc, attachment_paths, recipients, exc,
                   transport>>
    /\ UNCHANGED outer

\* line 200: from_address or default_sender or gmail_address
FromHeader(from_address, cfg) ==
    IF Truthy(from_address) THEN from_address.s
    ELSE IF cfg.default_sender # <<>> THEN cfg.default_sender
    ELSE cfg.gmail_address

\* lines 199-204
Headers(subject, from_address, cfg, to_, cc_) ==
    [h \in {"Subject", "From", "To"} \cup (IF Truthy(cc_) THEN {"Cc"} ELSE {}) |->
        CASE h = "Subject" -> subject
          [] h = "From" -> FromHeader(from_address, cfg)
          [] h = "To" -> Join(CommaSpace, Iter(to_))
          [] h = "Cc" -> Join(CommaSpace, Iter(cc_))]

\* lines 207-211
RecipientsNoBcc(to_, cc_, bcc_) ==
    to_.l \o (IF Truthy(cc_) THEN Iter(cc_) ELSE <<>>)
Recipients(to_, cc_, bcc_) ==
    to_.l \o (IF Truthy(cc_) THEN Iter(cc_) ELSE <<>>)
          \o (IF Truthy(bcc_) THEN Iter(bcc_) ELSE <<>>)

\* lines 199-211; ", ".join(None) raises TypeError, str has no copy()
SetHeaders ==
    /\ pc = "headers"
    /\ IF to.t = "none"
       THEN /\ Raise("TypeError")
            /\ UNCHANGED <<msg, recipients>>
       ELSE IF to.t = "str"
       THEN /\ Raise("AttributeError")
            /\ msg' = <<[msg[1] EXCEPT !.headers =
                            Headers(req.subject, req.from_address, config, to, cc)]>>
            /\ UNCHANGED recipients
       ELSE /\ msg' = <<[msg[1] EXCEPT !.headers =
                            Headers(req.subject, req.from_address, config, to, cc)]>>
            /\ recipients' = Recipients(to, cc, bcc)
            /\ pc' = "connect"
            /\ UNCHANGED exc
    /\ UNCHANGED <<config, req, body, to, cc, bcc, attachment_paths, result, transport>>
    /\ UNCHANGED outer


\* ------------------------------------------------------------- transport
\* an exception raised inside the with block: __exit__ runs before the handler
RaiseInWith(e) ==
    /\ exc' = e
    /\ pc' = "exit"

\* the peer dropped the connection: smtplib closes the socket and raises
Disconnected(step) ==
    /\ server = "open"
    /\ server' = "closed"
    /\ sockets' = sockets - 1
    /\ events' = Append(events, step)
    /\ RaiseInWith("SMTPServerDisconnected")

\* lines 217-222: starttls() precedes login() when use_tls is set
AfterConnectNoTLS(use_tls) == "login"
AfterConnect(use_tls) == IF use_tls THEN "starttls" ELSE "login"

\* line 216: smtplib.SMTP(host, port); a failed constructor leaves no socket
Connect ==
    /\ pc = "connect"
    /\ \/ /\ server' = "open"
          /\ sockets' = sockets + 1
          /\ events' = Append(events, "connect")
          /\ pc' = AfterConnect(config.use_tls)
          /\ UNCHANGED exc
       \/ /\ \E e \in {"OSError", "SMTPConnectError"} : Raise(e)
          /\ events' = Append(events, "connect_failed")
          /\ UNCHANGED <<server, sockets>>
    /\ UNCHANGED <<config, req, locals, result, delivered, refused>>
    /\ UNCHANGED outer

\* lines 217-219
StartTLS ==
    /\ pc = "starttls"
    /\ \/ /\ events' = Append(events, "starttls")
          /\ pc' = "login"
          /\ UNCHANGED <<server, sockets, exc>>
       \/ /\ \E e \in {"SMTPException", "SSLError"} : RaiseInWith(e)
          /\ events' = Append(events, "starttls_failed")
          /\ UNCHANGED <<server, sockets>>
       \/ Disconnected("starttls_failed")
    /\ UNCHANGED <<config, req, locals, result, delivered, refused>>
    /\ UNCHANGED outer

\* line 222
Login ==
    /\ pc = "login"
    /\ \/ /\ events' = Append(events, "login")
          /\ pc' = "send"
          /\ UNCHANGED <<server, sockets, exc>>
       \/ /\ RaiseInWith("SMTPAuthenticationError")
          /\ events' = Append(events, "login_failed")
          /\ UNCHANGED <<server, sockets>>
       \/ Disconnected("login_failed")
    /\ UNCHANGED <<config, req, locals, result, delivered, refused>>
    /\ UNCHANGED outer

\* line 226: send_message -> sendmail. The server answers each RCPT; when it
\* refuses all of them sendmail raises, otherwise DATA is sent and the
\* refused addresses are returned to the caller, which drops them.
SendMessage ==
    /\ pc = "send"
    /\ \/ /\ RaiseInWith("SMTPSenderRefused")
          /\ events' = Append(events, "send_failed")
          /\ UNCHANGED <<server, sockets, delivered, refused>>
       \/ \E bad \in SUBSET Range(recipients) :
            /\ refused' = bad
            /\ IF bad = Range(recipients)
               THEN /\ RaiseInWith("SMTPRecipientsRefused")
                    /\ events' = Append(events, "send_failed")
                    /\ UNCHANGED <<server, sockets, delivered>>
               ELSE \/ /\ delivered' = Range(recipients) \ bad
                       /\ events' = Append(events, "send")
                       /\ pc' = "exit"
                       /\ UNCHANGED <<server, sockets, exc>>
                    \/ /\ RaiseInWith("SMTPDataError")
                       /\ events' = Append(events, "send_failed")
                       /\ UNCHANGED <<server, sockets, delivered>>
       \/ /\ Disconnected("send_failed")
          /\ UNCHANGED <<delivered, refused>>
    /\ UNCHANGED <<config, req, locals, result>>
    /\ UNCHANGED outer

\* line 216 `with`: SMTP.__exit__ closes the socket in its finally clause,
\* whether or not an exception e is in flight
ExitClosesOnSuccess(srv, e) == IF e = "none" THEN "closed" ELSE srv
ExitCloses(srv, e) == "closed"

\* line 216 `with`: SMTP.__exit__ sends QUIT (a reply other than 221 raises
\* SMTPResponseException, a dropped connection is ignored) and closes;
\* line 229 `return True` when nothing is in flight
ExitWith ==
    /\ pc = "exit"
    /\ server' = ExitCloses(server, exc)
    /\ sockets' = IF server = "open" /\ server' = "closed" THEN sockets - 1 ELSE sockets
    /\ events' = Append(events, "close")
    /\ \E quit \in (IF server = "open" THEN {"221", "other", "disconnected"}
                    ELSE {"disconnected"}) :
        LET e == IF quit = "other" THEN "SMTPResponseException" ELSE exc
        IN  IF e = "none"
            THEN /\ result' = "true"
                 /\ pc' = "returned"
                 /\ UNCHANGED exc
            ELSE /\ Raise(e)
                 /\ UNCHANGED result
    /\ UNCHANGED <<config, req, locals, delivered, refused>>
    /\ UNCHANGED outer

\* lines 231-236; an exception no clause catches propagates to the caller
Except ==
    /\ pc = "except"
    /\ result' = IF Catches(exc) THEN "false" ELSE "raised"
    /\ exc' = IF Catches(exc) THEN "none" ELSE exc
    /\ pc' = "returned"
    /\ UNCHANGED <<config, req, locals, transport>>
    /\ UNCHANGED outer

Next ==
    \/ Call
    \/ Validate
    \/ ResolveAttachments
    \/ Compose
    \/ SetHeaders
    \/ Connect
    \/ StartTLS
    \/ Login
    \/ SendMessage
    \/ ExitWith
    \/ Except
    \/ Discard

Spec == Init /\ [][Next]_vars

TypeOK ==
    /\ pc \in {"idle", "validate", "attachments", "compose", "headers", "connect",
               "starttls", "login", "send", "exit", "except", "returned"}
    /\ result \in {"none", "true", "false", "raised"}
    /\ server \in {"none", "open", "closed"}
    /\ sockets \in 0..1


\* ============================================================== properties
Transmitting == {"connect", "starttls", "login", "send", "exit"}

Count(kinds) == Cardinality({i \in DOMAIN events : events[i] \in kinds})

\* the paths of the request, in the order given
RequestPaths ==
    IF Truthy(req.attachments)
    THEN (IF req.attachments.t = "str" THEN <<req.attachments.s>> ELSE req.attachments.l)
    ELSE <<>>

\* the composition of the message has finished
Composed ==
    /\ msg # <<>>
    /\ pc \in {"headers"} \cup Transmitting \/ events # <<>>

\* C1: every call of send_email ends by returning true or false; no
\* exception raised at any failure point reaches the caller.
C1_NeverPropagates ==
    pc = "returned" => result \in {"true", "false"} /\ exc = "none"

C1_Witness ==
    /\ pc = "returned"
    /\ result = "false"
    /\ events = <<"connect", "starttls_failed", "close">>

\* C2 (as claimed): a call either delivers to every address of the recipient
\* list and returns true, or delivers to none and returns false; it returns
\* true only when the server refused no recipient.
C2_AllOrNothing ==
    pc = "returned" =>
        /\ \/ result = "true" /\ delivered = Range(recipients)
           \/ result = "false" /\ delivered = {}
        /\ result = "true" => refused = {}

\* C3: with both bodies absent the call fails with the missing-body error,
\* returns false, and no transport step (connection, TLS, login,
\* transmission) is taken.
C3_MissingBodyNoTransport ==
    (~Truthy(req.body) /\ ~Truthy(req.body_html)) =>
        /\ events = <<>>
        /\ server = "none"
        /\ pc \in {"idle", "validate", "except", "returned"}
        /\ pc = "except" => exc = "ValueError"
        /\ pc = "returned" => result = "false"

C3_Witness ==
    /\ pc = "returned"
    /\ req.body = PyStr(<<>>)
    /\ req.body_html = PyNone
    /\ Truthy(req.to)
    /\ result = "false"

\* C4: when some attachment path is missing or is not a regular file, or
\* when reading an attachment fails, the call returns false and no
\* connection is opened; every attachment has been validated and read
\* before the connection-open step.
C4_AttachmentsBeforeConnect ==
    /\ ~AllValid(RequestPaths) =>
          /\ events = <<>>
          /\ server = "none"
          /\ pc \notin Transmitting
          /\ pc = "returned" => result = "false"
    /\ (pc \in Transmitting \/ events # <<>>) =>
          /\ msg # <<>>
          /\ attachment_paths = RequestPaths
          /\ RequestPaths # <<>> =>
                Len(msg[1].root.parts) = 1 + Len(RequestPaths)

C4_Witness ==
    /\ pc = "returned"
    /\ req.attachments = PyList(<<P_txt, P_gone>>)
    /\ result = "false"
    /\ events = <<>>

C4_WitnessUnreadable ==
    /\ pc = "returned"
    /\ attachment_paths = <<P_txt, P_gz>>
    /\ msg # <<>>
    /\ Len(msg[1].root.parts) = 2
    /\ result = "false"
    /\ events = <<>>

\* C5: the transport steps of a call happen in the order connect, TLS
\* upgrade (exactly when TLS is enabled), login, transmit: a login is
\* preceded by a successful TLS upgrade when TLS is enabled, and a
\* transmission by a successful login.
C5_TransportOrder ==
    \A i \in DOMAIN events :
        /\ i = 1 <=> events[i] \in {"connect", "connect_failed"}
        /\ events[i] \in {"starttls", "starttls_failed"} =>
              config.use_tls /\ events[i - 1] = "connect"
        /\ events[i] \in {"login", "login_failed"} =>
              IF config.use_tls THEN events[i - 1] = "starttls"
              ELSE events[i - 1] = "connect"
        /\ events[i] \in {"send", "send_failed"} => events[i - 1] = "login"

C5_Witness ==
    /\ config.use_tls
    /\ pc = "returned"
    /\ events = <<"connect", "starttls", "login", "send", "close">>

\* C6: no connection is open when send_email has returned, whatever the
\* exit path.
C6_ConnectionClosed ==
    pc \in {"returned", "idle"} => sockets = 0 /\ server # "open"

C6_Witness ==
    /\ pc = "returned"
    /\ events = <<"connect", "starttls", "login_failed", "close">>
    /\ server = "closed"
    /\ result = "false"

\* C7: a call opens at most one connection and attempts at most one TLS
\* upgrade, one login and one transmission; nothing follows a failed step
\* but the closing of the connection; and a call starts with no connection
\* left open by an earlier call.
C7_OneAttemptEach ==
    /\ Count({"connect", "connect_failed"}) <= 1
    /\ Count({"starttls", "starttls_failed"}) <= 1
    /\ Count({"login", "login_failed"}) <= 1
    /\ Count({"send", "send_failed"}) <= 1
    /\ \A i \in DOMAIN events :
          events[i] \in {"connect_failed", "starttls_failed", "login_failed", "send_failed"}
              => \A j \in (i + 1)..Len(events) : events[j] = "close"
    /\ events = <<>> => sockets = 0
    /\ sockets <= 1

C7_Witness ==
    /\ pc = "returned"
    /\ events = <<"connect", "login", "send_failed", "close">>
    /\ result = "false"


IsTextPart(part, subtype, text) ==
    /\ part.kind = "text"
    /\ part.subtype = subtype
    /\ part.payload = text
    /\ part.parts = <<>>

IsAlternativeOf(part, plain, html) ==
    /\ part.kind = "multipart"
    /\ part.subtype = "alternative"
    /\ Len(part.parts) = 2
    /\ IsTextPart(part.parts[1], "plain", plain)
    /\ IsTextPart(part.parts[2], "html", html)

\* C8: with at least one attachment the composed message is a mixed
\* container; its first child is the body part (one plain-text part without
\* HTML, otherwise an alternative part holding plain then HTML) and its
\* other children are one part per attachment, in the order of the paths.
C8_MixedStructure ==
    (Composed /\ RequestPaths # <<>>) =>
        LET root == msg[1].root
        IN  /\ root.kind = "multipart"
            /\ root.subtype = "mixed"
            /\ Len(root.parts) = 1 + Len(RequestPaths)
            /\ IF Truthy(req.body_html)
               THEN IsAlternativeOf(root.parts[1], body.s, req.body_html.s)
               ELSE IsTextPart(root.parts[1], "plain", req.body.s)
            /\ \A i \in 1..Len(RequestPaths) :
                  /\ root.parts[i + 1].kind = "base"
                  /\ root.parts[i + 1].filename = PathName(RequestPaths[i])
                  /\ root.parts[i + 1].payload = FileBytes(RequestPaths[i])

C8_Witness ==
    /\ pc = "send"
    /\ req.attachments = PyList(<<P_gz, P_txt>>)
    /\ Truthy(req.body_html)
    /\ Len(msg[1].root.parts) = 3
    /\ msg[1].root.parts[2].filename = P_gz
    /\ msg[1].root.parts[3].filename = <<"r", ".", "t", "x", "t">>

\* C9: with an HTML body and no attachment the composed message is an
\* alternative part with exactly two children, plain text then HTML.
C9_AlternativeStructure ==
    (Composed /\ Truthy(req.body_html) /\ RequestPaths = <<>>) =>
        /\ IsAlternativeOf(msg[1].root, body.s, req.body_html.s)
        /\ Truthy(req.body) => msg[1].root.parts[1].payload = req.body.s

C9_Witness ==
    /\ pc = "returned"
    /\ result = "true"
    /\ req.body_html = PyStr(HtmlText)
    /\ req.attachments = PyNone
    /\ msg[1].root.subtype = "alternative"

\* the addresses of the request's `to`, a str counting as one address
RequestTo == IF req.to.t = "str" THEN <<req.to.s>> ELSE req.to.l

\* the addresses separated by ", ", built from the left
RECURSIVE JoinedLeft(_)
JoinedLeft(addrs) ==
    IF addrs = <<>> THEN <<>>
    ELSE IF Len(addrs) = 1 THEN addrs[1]
    ELSE JoinedLeft(SubSeq(addrs, 1, Len(addrs) - 1)) \o <<",", " ">> \o addrs[Len(addrs)]

\* C10: with only a plain-text body the composed message is a single
\* plain-text part, its To header is the recipients joined in input order,
\* and a `to` given as one string is a one-element recipient list.
C10_PlainStructure ==
    (Truthy(req.body) /\ ~Truthy(req.body_html) /\ RequestPaths = <<>>) =>
        /\ Composed => IsTextPart(msg[1].root, "plain", req.body.s)
        /\ (msg # <<>> /\ "To" \in DOMAIN msg[1].headers) =>
              msg[1].headers["To"] = JoinedLeft(RequestTo)
        /\ pc \in Transmitting =>
              /\ to = PyList(RequestTo)
              /\ SubSeq(recipients, 1, Len(RequestTo)) = RequestTo

C10_Witness ==
    /\ pc = "returned"
    /\ result = "true"
    /\ req.to = PyList(<<A2, A1>>)
    /\ req.body = PyStr(PlainText)
    /\ req.body_html = PyNone
    /\ req.attachments = PyNone
    /\ msg[1].root.kind = "text"
    /\ msg[1].headers["To"] = <<"b", "@", "y", ",", " ", "a", "@", "x">>

C10_WitnessSingle ==
    /\ pc = "returned"
    /\ result = "true"
    /\ req.to = PyStr(A1)
    /\ req.body_html = PyNone
    /\ req.attachments = PyNone
    /\ recipients = <<A1>>
    /\ msg[1].headers["To"] = A1


\* the pattern <[^>]+> matches somewhere in s
HasTag(s) == \E i \in DOMAIN s : TagEnd(SubSeq(s, i, Len(s))) > 0

\* the plain-text part of a composed MIME tree
PlainPartOf(root) ==
    LET bodyPart == IF root.subtype = "mixed" THEN root.parts[1] ELSE root
    IN  IF bodyPart.kind = "multipart" THEN bodyPart.parts[1] ELSE bodyPart

\* C11: with an HTML body and no plain body the plain-text part is the HTML
\* with its tags stripped ("<p>Hi</p>" gives "Hi"), or the fixed placeholder
\* when stripping leaves nothing; a plain body given by the caller is kept.
C11_PlainFallback ==
    pc \notin {"idle", "validate"} =>
        /\ Truthy(req.body) => body = req.body
        /\ (~Truthy(req.body) /\ Truthy(req.body_html)) =>
              /\ body.t = "str"
              /\ body.s # <<>>
              /\ ~HasTag(body.s)
              /\ req.body_html.s = HtmlText => body.s = <<"H", "i">>
              /\ req.body_html.s = HtmlTagOnly => body.s = Placeholder
        /\ Composed =>
              /\ PlainPartOf(msg[1].root).subtype = "plain"
              /\ PlainPartOf(msg[1].root).payload = body.s

C11_Witness ==
    /\ pc = "returned"
    /\ result = "true"
    /\ req.body = PyNone
    /\ req.body_html = PyStr(HtmlTagOnly)
    /\ PlainPartOf(msg[1].root).payload = Placeholder

C11_WitnessStripped ==
    /\ pc = "returned"
    /\ result = "true"
    /\ req.body = PyNone
    /\ req.body_html = PyStr(HtmlText)
    /\ PlainPartOf(msg[1].root).payload = <<"H", "i">>

\* the cc / bcc addresses of the request, a str counting as one address
AddressesOf(v) ==
    IF ~Truthy(v) THEN <<>> ELSE IF v.t = "str" THEN <<v.s>> ELSE v.l

Contains(s, sub) ==
    \/ sub = <<>>
    \/ \E i \in 1..(Len(s) - Len(sub) + 1) :
          s[i] = sub[1] /\ SubSeq(s, i, i + Len(sub) - 1) = sub

\* C12: the list handed to the transport is to, then cc, then bcc, each in
\* input order; no header of the message holds a bcc address, and the Cc
\* header exists exactly when cc is present.
C12_RecipientList ==
    (pc \in Transmitting \/ events # <<>>) =>
        /\ recipients = RequestTo \o AddressesOf(req.cc) \o AddressesOf(req.bcc)
        /\ DOMAIN msg[1].headers =
              {"Subject", "From", "To"} \cup (IF Truthy(req.cc) THEN {"Cc"} ELSE {})
        /\ Truthy(req.cc) => msg[1].headers["Cc"] = JoinedLeft(AddressesOf(req.cc))
        /\ \A h \in DOMAIN msg[1].headers :
              \A i \in DOMAIN AddressesOf(req.bcc) :
                  ~Contains(msg[1].headers[h], AddressesOf(req.bcc)[i])

C12_Witness ==
    /\ pc = "returned"
    /\ result = "true"
    /\ req.to = PyList(<<A2, A1>>)
    /\ req.cc = PyList(<<A3, A1>>)
    /\ req.bcc = PyStr(A4)
    /\ recipients = <<A2, A1, A3, A1, A4>>
    /\ "Cc" \in DOMAIN msg[1].headers


\* ================================================================ scheduler
\* src/src/scheduler.py over the `schedule` module.  The clock counts slots:
\* a day has DayLen slots, "09:30" is the start of its last slot AtSlot,
\* so a time is at or after 09:30 of its day iff its slot is AtSlot.
DayLen == 2
AtSlot == DayLen - 1
WeekDays == 2
MaxTime == 3
MaxJobs == 2
MaxInterval == 1

DayOf(t) == t \div DayLen
SlotOf(t) == t % DayLen

\* the send arguments a job is bound to (lines 63-65: attachments=None)
JobRequests ==
    {[NoRequest EXCEPT !.to = PyStr(A1), !.body = PyStr(PlainText)]}

\* line 67: every().day.at(time_str) -- the first 09:30 strictly after t
NextRunDailyToday(t) == DayOf(t) * DayLen + AtSlot
NextRunDaily(t) ==
    LET today == DayOf(t) * DayLen + AtSlot
    IN  IF today > t THEN today ELSE today + DayLen

\* line 93: every().<day>.at(time_str) -- the first 09:30 of weekday wd after t
NextRunWeekly(t, wd) ==
    LET ahead == (wd - (DayOf(t) % WeekDays) + WeekDays) % WeekDays
        cand == (DayOf(t) + ahead) * DayLen + AtSlot
    IN  IF cand > t THEN cand ELSE cand + WeekDays * DayLen

\* line 117: every(n).minutes
NextRunInterval(t, n) == t + n

\* Job._schedule_next_run at time t
NextRun(job, t) ==
    CASE job.kind = "daily" -> NextRunDaily(t)
      [] job.kind = "weekly" -> NextRunWeekly(t, job.day)
      [] job.kind = "interval" -> NextRunInterval(t, job.interval)

\* Job.should_run: datetime.now() >= self.next_run
ShouldRun(job, t) == t >= job.next_run

\* lines 137, 165, 175: schedule.jobs is one list shared by every instance
RegistryPerInstance(inst) == inst
RegistryOf(inst) == 0

JobIds(q) == [i \in DOMAIN q |-> q[i].id]

\* a job as do() leaves it: never run, next run scheduled from now
NewJob(id, kind, day, interval, args, t) ==
    LET j == [id |-> id, kind |-> kind, day |-> day, interval |-> interval,
              args |-> args, next_run |-> 0]
    IN  [j EXCEPT !.next_run = NextRun(j, t)]

\* Job.do: append the job to the registry
Register(inst, kind, day, interval, args) ==
    /\ lpc = "caller"
    /\ ghost.next_id <= MaxJobs
    /\ jobs' = [jobs EXCEPT ![RegistryOf(inst)] =
                   Append(@, NewJob(ghost.next_id, kind, day, interval, args, now))]
    /\ ghost' = [ghost EXCEPT !.live = Append(@, ghost.next_id),
                              !.next_id = @ + 1]
    /\ UNCHANGED <<now, lpc, poll, running, interrupted, api>>
    /\ UNCHANGED <<sendvars, client, cli>>

\* the instances are interchangeable (lines 36-44 give them no state the
\* registry depends on): the first job is registered through instance 1
Registrars == IF ghost.next_id = 1 THEN {1} ELSE Instances

\* lines 46-68
ScheduleDaily ==
    \E inst \in Registrars, args \in JobRequests :
        Register(inst, "daily", 0, 1, args)

\* lines 70-94
ScheduleWeekly ==
    \E inst \in Registrars, day \in 0..(WeekDays - 1), args \in JobRequests :
        Register(inst, "weekly", day, 1, args)

\* lines 96-118
ScheduleInterval ==
    \E inst \in Registrars, n \in 1..MaxInterval, args \in JobRequests :
        Register(inst, "interval", 0, n, args)

\* lines 120-133: the schedule module has no function `do` (do is a method
\* of Job), so line 133 raises AttributeError and registers nothing
ScheduleCustom ==
    /\ lpc = "caller"
    /\ \E inst \in Instances :
        api' = [op |-> "schedule_custom", inst |-> inst, outcome |-> "AttributeError",
                view |-> JobIds(jobs[RegistryOf(inst)])]
    /\ lpc' = "api"
    /\ UNCHANGED <<now, jobs, poll, running, interrupted, ghost>>
    /\ UNCHANGED <<sendvars, client, cli>>

\* lines 169-175
GetJobs ==
    /\ lpc = "caller"
    /\ \E inst \in Instances :
        api' = [op |-> "get_jobs", inst |-> inst, outcome |-> "returned",
                view |-> JobIds(jobs[RegistryOf(inst)])]
    /\ lpc' = "api"
    /\ UNCHANGED <<now, jobs, poll, running, interrupted, ghost>>
    /\ UNCHANGED <<sendvars, client, cli>>

\* lines 162-167: schedule.clear() empties the registry in place
ClearAllJobs ==
    /\ lpc = "caller"
    /\ \E inst \in Instances :
        /\ jobs' = [jobs EXCEPT ![RegistryOf(inst)] = <<>>]
        /\ api' = [op |-> "clear_all_jobs", inst |-> inst, outcome |-> "returned",
                   view |-> <<>>]
    /\ lpc' = "api"
    /\ ghost' = [ghost EXCEPT !.live = <<>>]
    /\ UNCHANGED <<now, poll, running, interrupted>>
    /\ UNCHANGED <<sendvars, client, cli>>

\* the caller has taken the outcome of the scheduler call
ApiDone ==
    /\ lpc = "api"
    /\ lpc' = "caller"
    /\ api' = NoApi
    /\ UNCHANGED <<now, jobs, poll, running, interrupted, ghost>>
    /\ UNCHANGED <<sendvars, client, cli>>


\* sorted(): ascending next_run (Job.__lt__), equal keys in registry order
RECURSIVE SortByNextRun(_)
SortByNextRun(q) ==
    IF q = <<>> THEN <<>>
    ELSE LET i == CHOOSE i \in DOMAIN q :
                      /\ \A k \in DOMAIN q : q[i].next_run <= q[k].next_run
                      /\ \A k \in 1..(i - 1) : q[k].next_run > q[i].next_run
         IN  <<q[i]>> \o SortByNextRun(SubSeq(q, 1, i - 1) \o SubSeq(q, i + 1, Len(q)))

\* Scheduler.run_pending: the due jobs, fixed when the poll starts
Runnable(q, t) == JobIds(SortByNextRun(SelectSeq(q, LAMBDA j : ShouldRun(j, t))))

JobById(q, id) == q[CHOOSE i \in DOMAIN q : q[i].id = id]

\* schedule.run_pending() on the registry an instance sees
BeginPoll(key, continuous) ==
    /\ poll' = [key |-> key, continuous |-> continuous,
                runnable |-> Runnable(jobs[key], now), start |-> now]
    /\ lpc' = "poll"

\* lines 135-142: polls only when the registry is not empty
RunPending ==
    /\ lpc = "caller"
    /\ \E inst \in Instances :
        IF jobs[RegistryOf(inst)] # <<>>
        THEN BeginPoll(RegistryOf(inst), FALSE)
        ELSE UNCHANGED <<poll, lpc>>
    /\ UNCHANGED <<now, jobs, running, interrupted, api, ghost>>
    /\ UNCHANGED <<sendvars, client, cli>>

\* lines 144-156: enter the loop and make the first poll
RunContinuously ==
    /\ lpc = "caller"
    /\ \E inst \in Instances : BeginPoll(RegistryOf(inst), TRUE)
    /\ UNCHANGED <<now, jobs, running, interrupted, api, ghost>>
    /\ UNCHANGED <<sendvars, client, cli>>

\* Scheduler._run_job calls job_func and waits for it to return
InvokeDetached == "poll"
InvokeTarget == "job"

\* the next due job is called: lines 63-65 call send_email with its arguments
Invoke ==
    /\ lpc = "poll"
    /\ poll.runnable # <<>>
    /\ LET id == Head(poll.runnable)
           job == JobById(jobs[poll.key], id)
       IN  /\ running' = running \cup {id}
           /\ req' = job.args
           /\ body' = job.args.body /\ to' = job.args.to
           /\ cc' = job.args.cc /\ bcc' = job.args.bcc
    /\ pc' = "validate"
    /\ poll' = [poll EXCEPT !.runnable = Tail(@)]
    /\ lpc' = InvokeTarget
    /\ UNCHANGED <<now, jobs, interrupted, api, ghost>>
    /\ UNCHANGED <<config, attachment_paths, msg, recipients, exc, result, transport>>
    /\ UNCHANGED <<client, cli>>

\* the frame of send_email is gone
FrameReset ==
    /\ pc' = "idle"
    /\ req' = NoRequest
    /\ body' = PyNone /\ to' = PyNone /\ cc' = PyNone /\ bcc' = PyNone
    /\ attachment_paths' = <<>>
    /\ msg' = <<>>
    /\ recipients' = <<>>
    /\ server' = "none"
    /\ exc' = "none"
    /\ result' = "none"
    /\ events' = <<>>
    /\ delivered' = {}
    /\ refused' = {}
    /\ UNCHANGED <<config, sockets>>

\* line 158: run_continuously catches KeyboardInterrupt only
LoopExit(e, continuous) ==
    IF e = "KeyboardInterrupt" /\ continuous THEN "returned" ELSE "crashed"

\* send_email is over.  When it returned, the job returns None and Job.run
\* schedules the next run from the current time; when it raised, the
\* exception leaves the job, run_pending and the loop body.
JobEnd ==
    /\ lpc = "job"
    /\ pc = "returned"
    /\ LET id == CHOOSE j \in running : TRUE
           key == poll.key
       IN  /\ running' = running \ {id}
           /\ IF result \in {"true", "false"}
              THEN /\ jobs' = [jobs EXCEPT ![key] =
                          [i \in DOMAIN jobs[key] |->
                              IF jobs[key][i].id = id
                              THEN [jobs[key][i] EXCEPT
                                       !.next_run = NextRun(jobs[key][i], now)]
                              ELSE jobs[key][i]]]
                   /\ lpc' = "poll"
              ELSE /\ lpc' = LoopExit(exc, poll.continuous)
                   /\ UNCHANGED jobs
    /\ FrameReset
    /\ UNCHANGED <<now, poll, interrupted, api, ghost>>
    /\ UNCHANGED <<client, cli>>

\* run_pending has called every due job: line 157 sleeps, or line 140 returns
PollEnd ==
    /\ lpc = "poll"
    /\ poll.runnable = <<>>
    /\ lpc' = IF poll.continuous THEN "sleep" ELSE "caller"
    /\ poll' = IF poll.continuous THEN [poll EXCEPT !.start = -1] ELSE NoPoll
    /\ UNCHANGED <<now, jobs, running, interrupted, api, ghost>>
    /\ UNCHANGED <<sendvars, client, cli>>

\* lines 155-157: the sleep is over, the loop polls again
Wake ==
    /\ lpc = "sleep"
    /\ BeginPoll(poll.key, TRUE)
    /\ UNCHANGED <<now, jobs, running, interrupted, api, ghost>>
    /\ UNCHANGED <<sendvars, client, cli>>

\* time passes: between the caller's calls, during a sleep, during a job
Tick ==
    /\ now < MaxTime
    /\ \/ lpc \in {"caller", "sleep"}
       \/ lpc = "job" /\ pc = "validate"
    /\ now' = now + 1
    /\ UNCHANGED <<jobs, lpc, poll, running, interrupted, api, ghost>>
    /\ UNCHANGED <<sendvars, client, cli>>

\* Ctrl+C while run_continuously is active: KeyboardInterrupt is raised at the
\* current position of the thread -- in the loop itself (lines 156-157), or
\* inside the send_email of the running job
Interrupt ==
    /\ poll.continuous
    /\ ~interrupted
    /\ interrupted' = TRUE
    /\ \/ /\ lpc \in {"poll", "sleep"}
          /\ lpc' = LoopExit("KeyboardInterrupt", poll.continuous)
          /\ UNCHANGED sendvars
       \/ /\ lpc = "job"
          /\ exc' = "KeyboardInterrupt"
          /\ IF pc = "returned"
             THEN /\ result' = "raised"
                  /\ UNCHANGED pc
             ELSE /\ pc' = IF pc \in {"starttls", "login", "send", "exit"}
                           THEN "exit" ELSE "except"
                  /\ UNCHANGED result
          /\ UNCHANGED <<config, req, locals, transport, lpc>>
    /\ UNCHANGED <<now, jobs, poll, running, api, ghost>>
    /\ UNCHANGED <<client, cli>>

SchedInit ==
    /\ config \in [smtp_server : {"smtp.gmail.com"}, smtp_port : {587},
                   gmail_address : {Account}, gmail_password : {<<"p">>},
                   default_sender : {Account}, use_tls : {TRUE}]
    /\ client = "ready"
    /\ cli = NoCli
    /\ SchedIdle
    /\ pc = "idle"
    /\ req = NoRequest
    /\ body = PyNone /\ to = PyNone /\ cc = PyNone /\ bcc = PyNone
    /\ attachment_paths = <<>>
    /\ msg = <<>>
    /\ recipients = <<>>
    /\ server = "none"
    /\ sockets = 0
    /\ exc = "none"
    /\ result = "none"
    /\ events = <<>>
    /\ delivered = {}
    /\ refused = {}

SchedNext ==
    \/ ScheduleDaily
    \/ ScheduleWeekly
    \/ ScheduleInterval
    \/ ScheduleCustom
    \/ GetJobs
    \/ ClearAllJobs
    \/ ApiDone
    \/ RunPending
    \/ RunContinuously
    \/ Invoke
    \/ Validate
    \/ ResolveAttachments
    \/ Compose
    \/ SetHeaders
    \/ Connect
    \/ StartTLS
    \/ Login
    \/ SendMessage
    \/ ExitWith
    \/ Except
    \/ JobEnd
    \/ PollEnd
    \/ Wake
    \/ Tick
    \/ Interrupt

SchedSpec == SchedInit /\ [][SchedNext]_vars

SchedTypeOK ==
    /\ lpc \in {"caller", "api", "poll", "job", "sleep", "returned", "crashed"}
    /\ now \in 0..MaxTime
    /\ running \subseteq 1..MaxJobs
    /\ sockets \in 0..1


\* ------------------------------------------------------------ scheduler claims
\* the jobs being executed, as the registry of the current poll holds them
RunningJobs == {j \in Range(jobs[poll.key]) : j.id \in running}

HasJob(q, id) == \E i \in DOMAIN q : q[i].id = id

\* d is the first 09:30 strictly after t
FirstAtAfter(d, t) == d > t /\ d - t <= DayLen /\ SlotOf(d) = AtSlot

\* the due time of a daily job is set when it is registered and when a run of
\* it completes, and then it is the first 09:30 strictly after that moment
DailyDueStep ==
    \A k \in RegistryKeys : \A i \in DOMAIN jobs'[k] :
        LET j2 == jobs'[k][i]
        IN  j2.kind = "daily" =>
              IF HasJob(jobs[k], j2.id)
              THEN JobById(jobs[k], j2.id).next_run # j2.next_run =>
                      /\ lpc = "job" /\ pc = "returned" /\ j2.id \in running
                      /\ FirstAtAfter(j2.next_run, now)
              ELSE FirstAtAfter(j2.next_run, now)

\* C13 (as stated): a daily job is only ever invoked by a poll made at or
\* after 09:30 of the day of the poll.
C13_NotBeforeAtTime ==
    lpc = "job" => \A j \in RunningJobs :
        j.kind = "daily" => SlotOf(poll.start) = AtSlot

\* C13 (amended): a daily job is never invoked by a poll made before its due
\* time, the first 09:30 strictly after its registration or after the
\* completion of its latest run; a poll made at or after the due time invokes
\* it once, and the due time then lies after that poll.
C13_DueTime ==
    /\ [][DailyDueStep]_vars
    /\ [](lpc = "job" => \A j \in RunningJobs :
              j.kind = "daily" => j.next_run <= poll.start)
    /\ [](lpc = "job" => \A i \in DOMAIN poll.runnable :
              /\ poll.runnable[i] \notin running
              /\ \A k \in DOMAIN poll.runnable : poll.runnable[k] = poll.runnable[i] => k = i)
    /\ [](lpc = "poll" /\ poll.runnable = <<>> =>
              \A j \in Range(jobs[poll.key]) :
                  j.kind = "daily" => j.next_run > poll.start)

\* a daily job has run to a successful end in a poll made before 09:30 of its
\* day, catching up a due time of an earlier day
C13_Witness ==
    /\ lpc = "job" /\ pc = "returned" /\ result = "true"
    /\ \E j \in RunningJobs :
        /\ j.kind = "daily"
        /\ j.next_run <= poll.start
        /\ DayOf(j.next_run) < DayOf(poll.start)
        /\ SlotOf(poll.start) # AtSlot

\* C14: when schedule_custom is over it has returned normally and the
\* registry holds the custom job, so that get_jobs() lists it.
C14_CustomRegistered ==
    lpc = "api" /\ api.op = "schedule_custom" =>
        /\ api.outcome = "returned"
        /\ \E j \in Range(jobs[RegistryOf(api.inst)]) : j.kind = "custom"

\* C15: at most one job is being executed at any time, and while one is, the
\* scheduling thread is inside it: no other job is invoked, no poll starts
\* and no poll ends until send_email of that job is over.
C15_OneAtATime ==
    /\ Cardinality(running) <= 1
    /\ running # {} => lpc = "job"
    /\ lpc = "job" => Cardinality(running) = 1
    /\ lpc \in {"caller", "api", "poll", "sleep"} => pc = "idle"

\* a job is running long after its poll began, and meanwhile another
\* registered job has become due and waits
C15_Witness ==
    /\ lpc = "job"
    /\ now > poll.start
    /\ \E j \in Range(jobs[poll.key]) :
        /\ j.id \notin running
        /\ j.next_run > poll.start
        /\ j.next_run <= now

\* C16: run_continuously returns only after an interrupt and never ends in
\* another way, and once the interrupt has been delivered the loop makes no
\* further step: the interrupt is on its way out of the running job, or
\* run_continuously has returned.
C16_InterruptExits ==
    /\ lpc # "crashed"
    /\ lpc = "returned" => interrupted
    /\ interrupted => lpc \in {"job", "returned"}

\* C19: every instance sees the same registry, which holds the jobs
\* registered through any instance since the last clear_all_jobs() of any
\* instance: get_jobs() of any instance lists exactly these, a poll of any
\* instance invokes these only, and a cleared job is never invoked again.
C19_SharedRegistry ==
    /\ \A inst \in Instances : JobIds(jobs[RegistryOf(inst)]) = ghost.live
    /\ lpc = "api" /\ api.op = "get_jobs" => api.view = ghost.live
    /\ lpc = "api" /\ api.op = "clear_all_jobs" =>
           \A inst \in Instances : jobs[RegistryOf(inst)] = <<>>
    /\ lpc \in {"poll", "job"} =>
           /\ running \cup Range(poll.runnable) \subseteq Range(ghost.live)
           /\ \A j \in Range(jobs[poll.key]) :
                  ShouldRun(j, poll.start) => j.id \in running \cup Range(poll.runnable)
    /\ \A i \in DOMAIN ghost.live : ghost.live[i] < ghost.next_id

\* get_jobs() of instance 2 lists the second job alone: the first job,
\* registered through instance 1, has been cleared
C19_Witness ==
    /\ lpc = "api" /\ api.op = "get_jobs" /\ api.inst = 2
    /\ api.view = <<2>>

\* the step that ends a job whose send_email returned False, unless the
\* user interrupts at that very moment: the job has completed, the poll goes on with the due jobs left, and the job stays
\* registered with a due time in the future
FailedJobStep ==
    lpc = "job" /\ pc = "returned" /\ result = "false" /\ interrupted' = interrupted =>
        /\ lpc' = "poll"
        /\ poll' = poll
        /\ running' = {}
        /\ JobIds(jobs'[poll.key]) = JobIds(jobs[poll.key])
        /\ \A id \in running : JobById(jobs'[poll.key], id).next_run > now

\* C20: no exception other than the interrupt of the user leaves send_email
\* of a job, so the loop never ends through a failing job; a job whose send
\* failed completes, stays registered with a later due time, and the poll
\* still invokes every other job that was due.
C20_JobNeverRaises ==
    /\ [][FailedJobStep]_vars
    /\ [](lpc # "crashed")
    /\ [](lpc = "job" /\ pc = "returned" =>
              result \in {"true", "false"} \/ exc = "KeyboardInterrupt")
    /\ [](lpc = "poll" /\ poll.runnable = <<>> =>
              \A j \in Range(jobs[poll.key]) : ~ShouldRun(j, poll.start))

\* the send of a job has failed on a refused connection while, with no
\* interrupt delivered, another due job waits for its turn in the same poll
C20_Witness ==
    /\ lpc = "job" /\ pc = "returned" /\ result = "false"
    /\ ~interrupted
    /\ server = "none"
    /\ poll.runnable # <<>>


\* ============================================================== application
\* A process that takes its configuration from the environment and then
\* either constructs a MailClient itself or is the command-line program
\* src/src/send_email_cli.py.  smtp_port -1 stands for a SMTP_PORT text that
\* int() rejects (email_config.py line 21 raises ValueError).
EnvConfigs ==
    {[smtp_server |-> "smtp.gmail.com", smtp_port |-> p, gmail_address |-> a,
      gmail_password |-> w, default_sender |-> a, use_tls |-> t] :
        p \in {587, -1}, a \in {<<>>, <<"m", "e">>, Account},
        w \in {<<>>, <<"p">>}, t \in BOOLEAN}

\* email_config.py line 21
PortParses(cfg) == cfg.smtp_port >= 0

\* email_config.py lines 33-35
IsConfigured(cfg) == cfg.gmail_address # <<>> /\ cfg.gmail_password # <<>>

\* email_config.py lines 37-52: the error message, "none" when valid
ConfigValidateNoAt(cfg) ==
    IF cfg.gmail_address = <<>> THEN "GMAIL_ADDRESS is not set"
    ELSE IF cfg.gmail_password = <<>> THEN "GMAIL_PASSWORD is not set"
    ELSE "none"
ConfigValidate(cfg) ==
    IF cfg.gmail_address = <<>> THEN "GMAIL_ADDRESS is not set"
    ELSE IF cfg.gmail_password = <<>> THEN "GMAIL_PASSWORD is not set"
    ELSE IF "@" \notin Range(cfg.gmail_address)
         THEN "GMAIL_ADDRESS must be a valid email address"
    ELSE "none"

\* mail_client.py lines 34-55: the exception MailClient() ends with
ConstructOutcome(cfg) ==
    IF ~PortParses(cfg) THEN "ValueError"
    ELSE IF ~IsConfigured(cfg) THEN "ValueError"
    ELSE IF ConfigValidate(cfg) # "none" THEN "ValueError"
    ELSE "none"

\* a program constructs MailClient()
Construct ==
    /\ cli.pc = "none"
    /\ client = "none"
    /\ client' = IF ConstructOutcome(config) = "none" THEN "ready" ELSE "failed"
    /\ UNCHANGED <<sendvars, cli, schedvars>>

ClientRequests ==
    {[NoRequest EXCEPT !.to = PyStr(A1), !.body = b] : b \in {PyNone, PyStr(PlainText)}}

\* send_email is a method: it runs on a constructed client only
ClientCall ==
    /\ cli.pc = "none"
    /\ client = "ready"
    /\ \E args \in ClientRequests : StartCall(args)
    /\ UNCHANGED outer

\* the program has taken the outcome of its send_email call
ClientDiscard ==
    /\ cli.pc = "none"
    /\ Discard

\* the argparse namespace: --to and --attachments are lists (lines 37, 66)
CliArgs ==
    [to : {PyList(<<A1>>), PyList(<<A1, A2>>)}, subject : {SubjectText},
     body : {PyNone, PyStr(<<>>), PyStr(PlainText)},
     body_html : {PyNone, PyStr(HtmlText)},
     from_address : {PyNone}, cc : {PyNone}, bcc : {PyNone, PyList(<<A4>>)},
     attachments : {PyList(<<>>), PyList(<<P_txt>>), PyList(<<P_gone>>), PyList(<<P_dir>>)}]

\* sys.exit(code)
Exit(code) == cli' = [cli EXCEPT !.pc = "exited", !.code = code]

\* the command line was parsed: the program got past line 111
Parsed == "args" \in DOMAIN cli

\* lines 28-111: parse_args() prints the version and exits 0 on --version,
\* exits 2 on a usage error, and returns the namespace otherwise
CliParse ==
    /\ cli.pc = "none"
    /\ client = "none"
    /\ \/ Exit(0)
       \/ Exit(2)
       \/ \E args \in CliArgs, ymail \in BOOLEAN :
              cli' = [pc |-> "parsed", args |-> args, ymail |-> ymail, code |-> -1]
    /\ UNCHANGED <<sendvars, client, schedvars>>

\* lines 115-120; a ValueError of EmailConfig() ends at lines 196-199
CliConfig ==
    /\ cli.pc = "parsed"
    /\ IF ~PortParses(config) THEN Exit(1)
       ELSE IF ~IsConfigured(config) THEN Exit(1)
       ELSE cli' = [cli EXCEPT !.pc = "configured"]
    /\ UNCHANGED <<sendvars, client, schedvars>>

\* line 124; a ValueError of MailClient() ends at lines 196-199
CliClient ==
    /\ cli.pc = "configured"
    /\ IF ConstructOutcome(config) = "none"
       THEN /\ client' = "ready"
            /\ cli' = [cli EXCEPT !.pc = "client"]
       ELSE /\ client' = "failed"
            /\ Exit(1)
    /\ UNCHANGED <<sendvars, schedvars>>

\* line 127
CliAttachments(args) == IF Truthy(args.attachments) THEN args.attachments ELSE PyNone

\* lines 130-148
CliValidateBodyOnly ==
    /\ cli.pc = "client"
    /\ IF ~Truthy(cli.args.body) /\ ~Truthy(cli.args.body_html)
       THEN Exit(1)
       ELSE cli' = [cli EXCEPT !.pc = "valid"]
    /\ UNCHANGED <<sendvars, client, schedvars>>
CliValidate ==
    /\ cli.pc = "client"
    /\ LET attachments == CliAttachments(cli.args)
       IN  IF \E p \in Range(attachments.l) : ~PathExists(p) \/ ~PathIsFile(p)
           THEN Exit(1)
           ELSE IF ~Truthy(cli.args.body) /\ ~Truthy(cli.args.body_html)
           THEN Exit(1)
           ELSE cli' = [cli EXCEPT !.pc = "valid"]
    /\ UNCHANGED <<sendvars, client, schedvars>>

\* lines 162-185: send_email_to_ymail (lines 238-274) passes the single
\* address on as a string
CliSend ==
    /\ cli.pc = "valid"
    /\ StartCall([cli.args EXCEPT
           !.to = IF cli.ymail /\ Len(cli.args.to.l) = 1
                  THEN PyStr(cli.args.to.l[1]) ELSE cli.args.to,
           !.attachments = CliAttachments(cli.args)])
    /\ cli' = [cli EXCEPT !.pc = "sending"]
    /\ UNCHANGED <<client, schedvars>>

\* lines 187-203: an exception out of send_email would end at lines 200-203
CliExit ==
    /\ cli.pc = "sending"
    /\ pc = "returned"
    /\ Exit(IF result = "true" THEN 0 ELSE 1)
    /\ UNCHANGED <<sendvars, client, schedvars>>

AppInit ==
    /\ config \in EnvConfigs
    /\ client = "none"
    /\ cli = NoCli
    /\ SchedIdle
    /\ pc = "idle"
    /\ req = NoRequest
    /\ body = PyNone /\ to = PyNone /\ cc = PyNone /\ bcc = PyNone
    /\ attachment_paths = <<>>
    /\ msg = <<>>
    /\ recipients = <<>>
    /\ server = "none"
    /\ sockets = 0
    /\ exc = "none"
    /\ result = "none"
    /\ events = <<>>
    /\ delivered = {}
    /\ refused = {}

AppNext ==
    \/ Construct
    \/ ClientCall
    \/ ClientDiscard
    \/ CliParse
    \/ CliConfig
    \/ CliClient
    \/ CliValidate
    \/ CliSend
    \/ CliExit
    \/ Validate
    \/ ResolveAttachments
    \/ Compose
    \/ SetHeaders
    \/ Connect
    \/ StartTLS
    \/ Login
    \/ SendMessage
    \/ ExitWith
    \/ Except

AppSpec == AppInit /\ [][AppNext]_vars

AppTypeOK ==
    /\ client \in {"none", "ready", "failed"}
    /\ cli.pc \in {"none", "parsed", "configured", "client", "valid", "sending", "exited"}
    /\ cli.code \in {-1, 0, 1, 2}
    /\ sockets \in 0..1


\* --------------------------------------------------------- application claims
\* the configuration fails a check of the construction
BadConfig(cfg) ==
    \/ cfg.gmail_address = <<>>
    \/ cfg.gmail_password = <<>>
    \/ "@" \notin Range(cfg.gmail_address)

\* the failures the program finds before it sends
ValidationFailure ==
    /\ Parsed
    /\ \/ ~PortParses(config)
       \/ BadConfig(config)
       \/ \E p \in Range(cli.args.attachments.l) : ~PathExists(p) \/ ~PathIsFile(p)
       \/ ~Truthy(cli.args.body) /\ ~Truthy(cli.args.body_html)

NoSendCalled == pc = "idle" /\ result = "none" /\ events = <<>> /\ sockets = 0

\* C17 (as stated): the program exits with 0 exactly when the send reported
\* success and with 1 on every other path.
C17_ExitCodes ==
    cli.pc = "exited" =>
        /\ cli.code \in {0, 1}
        /\ cli.code = 0 <=> result = "true"

\* C17 (amended): once the command line has been parsed the program exits
\* with 0 exactly when the send reported success and with 1 otherwise, and on
\* a validation failure no send is called; argument parsing itself exits
\* with 0 (--version) or 2 (usage error), and sends nothing.
C17_ExitCodesOnceParsed ==
    /\ cli.pc = "exited" /\ Parsed =>
        /\ cli.code \in {0, 1}
        /\ cli.code = 0 <=> result = "true"
        /\ ValidationFailure => cli.code = 1 /\ NoSendCalled
    /\ cli.pc = "exited" /\ ~Parsed => cli.code \in {0, 2} /\ NoSendCalled
    /\ cli.pc \in {"parsed", "configured", "client", "valid"} => NoSendCalled
    /\ cli.pc \in {"valid", "sending"} => ~ValidationFailure

\* --ymail with one recipient and an attachment: the send succeeded, exit 0
C17_Witness ==
    /\ cli.pc = "exited" /\ cli.code = 0
    /\ Parsed
    /\ cli.ymail /\ req.to = PyStr(A1)
    /\ attachment_paths = <<P_txt>>
    /\ result = "true"

\* C18: with a configuration whose address or credential is missing, or
\* whose address has no "@", no MailClient comes to exist, so send_email
\* never runs and no connection is opened; send_email runs on a constructed
\* client only.
C18_ConstructionGuards ==
    /\ BadConfig(config) =>
           client \in {"none", "failed"} /\ NoSendCalled
    /\ client = "ready" => ~BadConfig(config) /\ PortParses(config)
    /\ pc # "idle" => client = "ready"

\* a program outside the CLI constructed MailClient() with credentials set
\* and an address without "@": the construction failed
C18_Witness ==
    /\ cli.pc = "none"
    /\ client = "failed"
    /\ config.gmail_address = <<"m", "e">>
    /\ config.gmail_password # <<>>
    /\ PortParses(config)

====
